---- MODULE Spec2Model ----
(***************************************************************************)
(* Model of the session coordinator AppProvider (the React provider kept   *)
(* in src/types.ts, lines 138-372): message pipeline, location flow, call  *)
(* lifecycle and notification dispatcher.                                  *)
(*                                                                         *)
(* One action is one synchronous segment of a handler together with the    *)
(* render it commits and the effects of that render whose dependencies     *)
(* changed.  State setters called in one segment are batched: the segment  *)
(* is atomic.  A handler that awaits leaves a task in `pending`; the task  *)
(* keeps the values its closure captured (currentUser, activeChat) when    *)
(* the handler was invoked, as a JavaScript closure does.                  *)
(***************************************************************************)
EXTENDS Naturals, Sequences, FiniteSets, Bags, TLC

\* ---------------------------------------------------------------- bounds
MaxMsgs == 2        \* persisted messages over all chats
MaxPending == 2     \* awaits in flight at once

\* ------------------------------------------------------------ value sets
UserIds == {"u1", "u2"}
ChatIds == {"A", "B"}
NoChat == "null"
NoStream == "null"
NoId == "null"
AISender == "AI"
Contents == {"hi"}
Coords == {[latitude |-> 1, longitude |-> 2], [latitude |-> 3, longitude |-> 4]}
NoLoc == << >>
NoUser == [id |-> "null", lastKnownLocation |-> NoLoc]

\* ActiveCallType
NONE == "NONE"
VIDEO == "VIDEO"
VOICE == "VOICE"

UserName(uid) == "name_" \o uid

VARIABLES
  currentUser,               \* NoUser or [id, lastKnownLocation]
  users,                     \* the provider's copy of the user directory
  dirStore,                  \* userService: the persisted user directory
  activeChat,                \* NoChat or a chat id
  messages,                  \* the observable message list
  msgStore,                  \* userService: persisted messages per chat id
  activeCallType,
  localMediaStreamAndTracks,
  isCallViewVisible,
  isLoadingAI,
  notificationPermission,
  lastNotifiedMessageId,
  hidden,                    \* document.hidden
  clock,                     \* Date.now()
  pending,                   \* awaits in flight
  notifyPending,             \* a committed render whose notification effect has not run yet
  notifyCount,               \* history: notifications raised per message id since the active chat last changed
  ev                         \* history: the last operation that acted

vars == <<currentUser, users, dirStore, activeChat, messages, msgStore,
          activeCallType, localMediaStreamAndTracks, isCallViewVisible,
          isLoadingAI, notificationPermission, lastNotifiedMessageId, hidden,
          clock, pending, notifyPending, notifyCount, ev>>

callVars == <<activeCallType, localMediaStreamAndTracks, isCallViewVisible>>
userVars == <<currentUser, users, dirStore>>
msgVars == <<messages, msgStore, clock>>

Ev(op, chat, user, arg, note) ==
  [op |-> op, chat |-> chat, user |-> user, arg |-> arg, note |-> note]

MsgIds == {ToString(n) : n \in 1..(MaxMsgs + 1)}
ZeroCount == [i \in MsgIds |-> 0]

\* ----------------------------------------------------------- persistence
\* userService.getMessages(chatId): all messages stored for the chat, in stored order.
getMessages(store, chatId) == store[chatId]

\* userService.addMessage(chatId, message): appends and returns the full updated list;
\* the store after the call.
addMessage(store, chatId, message) ==
  [store EXCEPT ![chatId] = Append(store[chatId], message)]

\* userService.updateUser(user): upserts the user; the directory after the call.
updateUser(dir, user) == [dir EXCEPT ![user.id] = user.lastKnownLocation]

TotalMsgs == LET n(c) == Len(msgStore[c]) IN n("A") + n("B")

\* Date.now() is read only to make ids, and ids are only tested for equality: a clock
\* that advances twice with no message stored in between reaches no new case.  The
\* clock is kept at most one ahead of the number of stored messages.
ClockMayAdvance == clock <= TotalMsgs

\* Room left in the store for one more message when `appends` holds.
Room(appends) == appends => TotalMsgs < MaxMsgs

Init ==
  /\ currentUser = NoUser
  /\ users = [u \in UserIds |-> NoLoc]
  /\ dirStore = [u \in UserIds |-> NoLoc]
  /\ activeChat = NoChat
  /\ messages = << >>
  /\ msgStore = [c \in ChatIds |-> << >>]
  /\ activeCallType = NONE
  /\ localMediaStreamAndTracks = NoStream
  /\ isCallViewVisible = FALSE
  /\ isLoadingAI = FALSE
  /\ notificationPermission = "default"
  /\ lastNotifiedMessageId = NoId
  /\ hidden = FALSE
  /\ clock = 1
  /\ pending = EmptyBag
  /\ notifyPending = FALSE
  /\ notifyCount = ZeroCount
  /\ ev = Ev("init", NoChat, NoUser.id, "", "")

\* ------------------------------------------------------ awaits in flight
\* A task is the continuation of a handler suspended at an await; pending is the bag
\* of them.  chat and user are the activeChat and the id of the currentUser its closure
\* captured (of the captured user record only the id is read after the await: name
\* and the other fields follow from it, lastKnownLocation is overwritten); arg is the
\* query (ai) or the call type (media).
Task(kind, chat, user, arg) ==
  [kind |-> kind, chat |-> chat, user |-> user, arg |-> arg]

Tasks == BagToSet(pending)
Await(t) == pending (+) SetToBag({t})
Resume(t) == pending (-) SetToBag({t})
CanAwait == BagCardinality(pending) < MaxPending

\* The commit of a render whose notification dependencies changed leaves its
\* notification effect to run.  Without the permission the effect returns at its
\* first test whenever it runs, so it is not kept.
EffectDue(perm) == perm = "granted"

\* ------------------------------------------------------- message pipeline
\* The Message built by sendMessage: id from the first Date.now(), timestamp from the
\* second.
NewMessage(uid, ch, content, type, now1, now2) ==
  [id |-> ToString(now1), chatId |-> ch, senderId |-> uid,
   senderName |-> UserName(uid), content |-> content,
   timestamp |-> now2, type |-> type]

\* geminiService.askAI(content, currentUser) when it returns a message.
AIResponse(query, askingUser, now) ==
  [id |-> ToString(now), chatId |-> AISender, senderId |-> AISender,
   senderName |-> UserName(AISender), content |-> "re: " \o query,
   timestamp |-> now, type |-> "ai_response"]

\* Faulty variant: the guard misses the test of the current user.
SendMessageSync_ChatOnly(uid, ch, content, type, d) ==
  IF ch = NoChat
  THEN UNCHANGED msgVars
  ELSE /\ clock' = clock + d
       /\ msgStore' = addMessage(msgStore, ch,
                                 NewMessage(uid, ch, content, type, clock, clock + d))
       /\ messages' = getMessages(msgStore', ch)

\* sendMessage up to its first await, as run by a closure that captured the user uid and the chat ch:
\* the guard, the new message, addMessage and setMessages of its return value.
\* d is how far the clock advances between the two Date.now() calls.
SendMessageSync(uid, ch, content, type, d) ==
  IF uid = NoUser.id \/ ch = NoChat
  THEN UNCHANGED msgVars
  ELSE /\ d > 0 => ClockMayAdvance
       /\ clock' = clock + d
       /\ msgStore' = addMessage(msgStore, ch,
                                 NewMessage(uid, ch, content, type, clock, clock + d))
       /\ messages' = getMessages(msgStore', ch)

\* sendMessage(content, type) called by the user interface: the closure of the last
\* render, so it sees the present currentUser and activeChat.
SendMessage(content, type, d) ==
  /\ ~notifyPending
  /\ Room(currentUser # NoUser /\ activeChat # NoChat)
  /\ type = "ai_query" => CanAwait
  /\ SendMessageSync(currentUser.id, activeChat, content, type, d)
  /\ IF currentUser = NoUser \/ activeChat = NoChat
     THEN /\ ev' = Ev("sendMessageSkip", activeChat, currentUser.id, type, "")
          /\ UNCHANGED <<isLoadingAI, pending, notifyPending>>
     ELSE /\ ev' = Ev("sendMessage", activeChat, currentUser.id, type, "")
          /\ notifyPending' = EffectDue(notificationPermission)
          /\ IF type = "ai_query"
             THEN /\ isLoadingAI' = TRUE
                  /\ pending' = Await(Task("ai", activeChat, currentUser.id, content))
             ELSE UNCHANGED <<isLoadingAI, pending>>
  /\ UNCHANGED <<userVars, activeChat, callVars, notificationPermission,
                 lastNotifiedMessageId, hidden, notifyCount>>

\* Faulty variant: the answer goes to the chat that is active when it arrives.
AIResponded_ActiveChat(t) ==
  /\ ~notifyPending
  /\ t.kind = "ai"
  /\ Room(TRUE)
  /\ IF activeChat = NoChat
     THEN UNCHANGED <<msgStore, messages>>
     ELSE /\ msgStore' = addMessage(msgStore, activeChat,
                                    AIResponse(t.arg, t.user, clock))
          /\ messages' = getMessages(msgStore', activeChat)
  /\ isLoadingAI' = FALSE
  /\ pending' = Resume(t)
  /\ notifyPending' = EffectDue(notificationPermission)
  /\ ev' = Ev("aiResponded", t.chat, t.user, t.arg, "")
  /\ UNCHANGED <<userVars, activeChat, callVars, notificationPermission,
                 lastNotifiedMessageId, hidden, clock, notifyCount>>

\* sendMessage after `await askAI(...)`: the responder returned a message.
AIResponded(t) ==
  /\ ~notifyPending
  /\ t.kind = "ai"
  /\ Room(TRUE)
  /\ msgStore' = addMessage(msgStore, t.chat, AIResponse(t.arg, t.user, clock))
  /\ messages' = getMessages(msgStore', t.chat)
  /\ isLoadingAI' = FALSE
  /\ pending' = Resume(t)
  /\ notifyPending' = EffectDue(notificationPermission)
  /\ ev' = Ev("aiResponded", t.chat, t.user, t.arg, "")
  /\ UNCHANGED <<userVars, activeChat, callVars, notificationPermission,
                 lastNotifiedMessageId, hidden, clock, notifyCount>>

\* sendMessage after `await askAI(...)`: the responder returned null.
AIReturnedNull(t) ==
  /\ ~notifyPending
  /\ t.kind = "ai"
  /\ isLoadingAI' = FALSE
  /\ pending' = Resume(t)
  /\ ev' = Ev("aiReturnedNull", t.chat, t.user, t.arg, "")
  /\ UNCHANGED <<userVars, activeChat, msgVars, callVars, notificationPermission,
                 lastNotifiedMessageId, hidden, notifyPending, notifyCount>>

\* `await askAI(...)` rejects: the rest of sendMessage does not run.
AIFailed(t) ==
  /\ ~notifyPending
  /\ t.kind = "ai"
  /\ pending' = Resume(t)
  /\ ev' = Ev("aiFailed", t.chat, t.user, t.arg, "rejected")
  /\ UNCHANGED <<userVars, activeChat, msgVars, callVars, isLoadingAI,
                 notificationPermission, lastNotifiedMessageId, hidden,
                 notifyPending, notifyCount>>

\* -------------------------------------------------- notification dispatcher
LastMessage(msgs) == msgs[Len(msgs)]

\* The conditions of the notification effect, for the values of one render.
ShouldNotify(perm, cu, ch, msgs, token, hid) ==
  /\ perm = "granted" /\ cu # NoUser /\ ch # NoChat /\ Len(msgs) > 0
  /\ LastMessage(msgs).id # token
  /\ LastMessage(msgs).senderId # cu.id
  /\ hid

Bump(count, id) == [count EXCEPT ![id] = IF @ < 2 THEN @ + 1 ELSE @]

\* The notification effect of a committed render.  `new Notification` may throw (shown
\* is FALSE): the error is logged and the token is set all the same.  Setting the
\* token commits a render whose notification effect runs again.
NotificationEffect ==
  /\ notifyPending
  /\ IF ShouldNotify(notificationPermission, currentUser, activeChat, messages,
                     lastNotifiedMessageId, hidden)
     THEN /\ lastNotifiedMessageId' = LastMessage(messages).id
          /\ \E shown \in BOOLEAN :
               /\ notifyCount' = IF shown THEN Bump(notifyCount, LastMessage(messages).id)
                                          ELSE notifyCount
               /\ ev' = Ev("notificationEffect", activeChat, currentUser.id,
                           LastMessage(messages).id,
                           IF shown THEN "shown" ELSE "threw")
          /\ notifyPending' = EffectDue(notificationPermission)
     ELSE /\ notifyPending' = FALSE
          /\ ev' = Ev("notificationEffect", activeChat, currentUser.id, NoId, "skip")
          /\ UNCHANGED <<lastNotifiedMessageId, notifyCount>>
  /\ UNCHANGED <<userVars, activeChat, msgVars, callVars, isLoadingAI,
                 notificationPermission, hidden, pending>>

\* ------------------------------------------------------ session coordinator
\* The reload effect on [activeChat].
ReloadMessages(store, ch) == IF ch # NoChat THEN getMessages(store, ch) ELSE << >>

\* Faulty variant of the reset effect: the token survives the chat change.
ResetToken_Keep(token) == token

\* The reset effect on [activeChat].
ResetToken(token) == NoId

\* setActiveChat(c) and the effects of the render it commits, in the order they are
\* declared: reload, notification (it still sees the list and the token of the chat
\* left), reset.  The setters of the three are batched: the reset is the last write
\* of the token.
SetActiveChat(c) ==
  /\ ~notifyPending
  /\ c # activeChat
  /\ activeChat' = c
  /\ messages' = ReloadMessages(msgStore, c)
  /\ IF ShouldNotify(notificationPermission, currentUser, c, messages,
                     lastNotifiedMessageId, hidden)
     THEN \E shown \in BOOLEAN :
            notifyCount' = IF shown THEN Bump(ZeroCount, LastMessage(messages).id)
                                    ELSE ZeroCount
     ELSE notifyCount' = ZeroCount
  /\ lastNotifiedMessageId' = ResetToken(lastNotifiedMessageId)
  /\ notifyPending' = EffectDue(notificationPermission)
  /\ ev' = Ev("setActiveChat", c, currentUser.id, lastNotifiedMessageId, "")
  /\ UNCHANGED <<userVars, msgStore, clock, callVars, isLoadingAI,
                 notificationPermission, hidden, pending>>

\* setCurrentUser(user | null) by the authentication page: login with the directory's
\* record of the user, or logout.
SetCurrentUser(uid) ==
  /\ ~notifyPending
  /\ uid # currentUser.id
  /\ currentUser' = IF uid = NoUser.id THEN NoUser
                    ELSE [id |-> uid, lastKnownLocation |-> dirStore[uid]]
  /\ notifyPending' = EffectDue(notificationPermission)
  /\ ev' = Ev("setCurrentUser", activeChat, uid, "", "")
  /\ UNCHANGED <<users, dirStore, activeChat, msgVars, callVars, isLoadingAI,
                 notificationPermission, lastNotifiedMessageId, hidden, pending,
                 notifyCount>>

\* Notification.requestPermission() resolves: setNotificationPermission(permission).
PermissionAnswered(p) ==
  /\ ~notifyPending
  /\ notificationPermission = "default"
  /\ notificationPermission' = p
  /\ notifyPending' = EffectDue(p)
  /\ ev' = Ev("permission", activeChat, currentUser.id, p, "")
  /\ UNCHANGED <<userVars, activeChat, msgVars, callVars, isLoadingAI,
                 lastNotifiedMessageId, hidden, pending, notifyCount>>

\* ----------------------------------------------------------- location flow
\* Failure values of `await getCurrentLocation()`.  shape is what the catch branch
\* tests: "coded" an object with `code` and `message`, "Error" an instance of Error
\* without `code`, "object" any other object (message is what String(error) gives),
\* "objectThrows" an object whose string conversion throws, "string", "null",
\* "number".
Err(shape, code, message) == [shape |-> shape, code |-> code, message |-> message]

ErrorValues ==
  {Err("coded", 1, "x"), Err("coded", 2, "x"), Err("coded", 3, "x"),
   Err("coded", 99, "y"), Err("coded", 99, ""), Err("Error", 0, "z"),
   Err("Error", 0, ""),
   Err("string", 0, "w"), Err("object", 0, "[object Object]"),
   Err("object", 0, "custom"), Err("objectThrows", 0, ""), Err("null", 0, ""),
   Err("number", 0, "42")}

\* What the location collaborator rejects with: a geolocation error or a generic one.
LocationErrors == {Err("coded", 1, "x"), Err("coded", 99, "y"), Err("Error", 0, "z")}

\* String.prototype.toLowerCase on the strings the conversion can give here.
ToLowerCase(str) == IF str = "[object Object]" THEN "[object object]" ELSE str

\* The catch branch of shareLocation: the user-facing text of a failure value.
NormalizeError(error) ==
  IF error.shape \in {"coded", "Error", "object", "objectThrows"}
  THEN IF error.shape = "coded"
       THEN CASE error.code = 1 -> "Permission de geolocalisation refusee par l'utilisateur."
              [] error.code = 2 -> "Information de position non disponible."
              [] error.code = 3 -> "La demande de position a expire."
              [] OTHER -> "Erreur de geolocalisation: "
                          \o (IF error.message = "" THEN "Inconnue" ELSE error.message)
                          \o " (code " \o ToString(error.code) \o ")."
       ELSE IF error.shape = "Error"
       THEN error.message
       ELSE IF error.shape = "objectThrows"
       THEN "Details de l'erreur non disponibles (conversion en chaine impossible)."
       ELSE IF ToLowerCase(error.message) = "[object object]"
       THEN "Details de l'erreur non disponibles."
       ELSE error.message
  ELSE IF error.shape = "string"
  THEN error.message
  ELSE "Une erreur inconnue est survenue lors du partage de la position."

LocationString(coords) ==
  "Location: " \o ToString(coords.latitude) \o ", " \o ToString(coords.longitude)

\* Faulty variant: the failure text without the normalized error.
LocationFailureText_Generic(error) == "Impossible de partager la position."

LocationFailureText(error) ==
  "Impossible de partager la position: " \o NormalizeError(error)

\* Faulty variant: the stored record misses the fetched coordinates.
UpdatedUser_NoLocation(uid, coords) == [id |-> uid, lastKnownLocation |-> NoLoc]

\* The user record shareLocation stores: the captured currentUser with the new location.
UpdatedUser(uid, coords) == [id |-> uid, lastKnownLocation |-> <<coords>>]

\* shareLocation() up to `await getCurrentLocation()`.
ShareLocation ==
  /\ ~notifyPending
  /\ CanAwait
  /\ IF currentUser = NoUser \/ activeChat = NoChat
     THEN /\ ev' = Ev("shareLocationSkip", activeChat, currentUser.id, "", "")
          /\ UNCHANGED pending
     ELSE /\ ev' = Ev("shareLocation", activeChat, currentUser.id, "", "")
          /\ pending' = Await(Task("loc", activeChat, currentUser.id, ""))
  /\ UNCHANGED <<userVars, activeChat, msgVars, callVars, isLoadingAI,
                 notificationPermission, lastNotifiedMessageId, hidden,
                 notifyPending, notifyCount>>

\* shareLocation after the fetch resolved with coords: the location message, then
\* setCurrentUser(updatedUser) and setUsers(() => userService.updateUser(updatedUser)).
LocationFetched(t, coords) ==
  /\ ~notifyPending
  /\ t.kind = "loc"
  /\ Room(TRUE)
  /\ SendMessageSync(t.user, t.chat, LocationString(coords), "location", 0)
  /\ currentUser' = UpdatedUser(t.user, coords)
  /\ dirStore' = updateUser(dirStore, UpdatedUser(t.user, coords))
  /\ users' = dirStore'
  /\ pending' = Resume(t)
  /\ notifyPending' = EffectDue(notificationPermission)
  /\ ev' = Ev("locationFetched", t.chat, t.user, LocationString(coords), "")
  /\ UNCHANGED <<activeChat, callVars, isLoadingAI, notificationPermission,
                 lastNotifiedMessageId, hidden, notifyCount>>

\* shareLocation after the fetch rejected with error: the catch branch.
LocationFailed(t, error) ==
  /\ ~notifyPending
  /\ t.kind = "loc"
  /\ Room(TRUE)
  /\ SendMessageSync(t.user, t.chat, LocationFailureText(error), "text", 0)
  /\ pending' = Resume(t)
  /\ notifyPending' = EffectDue(notificationPermission)
  /\ ev' = Ev("locationFailed", t.chat, t.user, NormalizeError(error), "")
  /\ UNCHANGED <<userVars, activeChat, callVars, isLoadingAI, notificationPermission,
                 lastNotifiedMessageId, hidden, notifyCount>>

\* ----------------------------------------------------------- call lifecycle
CallWord(callType) == IF callType = VIDEO THEN "video" ELSE "vocal"
CallStartedText(callType) == "Appel " \o CallWord(callType) \o " demarre (simulation)."
\* Faulty variant: the text does not name the call type.
CallFailedText_Generic(callType) == "Impossible de demarrer l'appel."
CallFailedText(callType) == "Impossible de demarrer l'appel " \o CallWord(callType) \o "."
CallEndedText == "Appel termine (simulation)."

\* rtcService.startLocalMedia(null, audioOnly) when it resolves: the stream and tracks.
startLocalMedia(audioOnly) == IF audioOnly THEN "audio" ELSE "audio+video"

\* History kept in ev.note.  After endCall: "initiated" when the operation before it
\* was initiateCall(callType) with its acquisition still in flight, "completed" when
\* it was the completion of an initiateCall(callType).  After a completion: "ended"
\* when it completes the acquisition of the initiateCall that endCall followed.
EndCallNote ==
  IF ev.op = "initiateCall" THEN "initiated"
  ELSE IF ev.op \in {"mediaAcquired", "mediaFailed"} THEN "completed"
  ELSE ""

CompletionNote(t) ==
  IF ev.op = "endCall" /\ ev.note = "initiated"
     /\ t = Task("media", ev.chat, ev.user, ev.arg)
  THEN "ended" ELSE ""

\* initiateCall(callType) up to `await startLocalMedia(...)`.
InitiateCall(callType) ==
  /\ ~notifyPending
  /\ CanAwait
  /\ IF activeChat = NoChat
     THEN /\ ev' = Ev("initiateCallSkip", activeChat, currentUser.id, callType, "")
          /\ UNCHANGED pending
     ELSE /\ ev' = Ev("initiateCall", activeChat, currentUser.id, callType, "")
          /\ pending' = Await(Task("media", activeChat, currentUser.id, callType))
  /\ UNCHANGED <<userVars, activeChat, msgVars, callVars, isLoadingAI,
                 notificationPermission, lastNotifiedMessageId, hidden,
                 notifyPending, notifyCount>>

\* initiateCall after the acquisition resolved: the three setters and the status
\* message, sent by the sendMessage its closure captured.
MediaAcquired(t) ==
  /\ ~notifyPending
  /\ t.kind = "media"
  /\ Room(t.user # NoUser.id)
  /\ localMediaStreamAndTracks' = startLocalMedia(t.arg = VOICE)
  /\ activeCallType' = t.arg
  /\ isCallViewVisible' = TRUE
  /\ SendMessageSync(t.user, t.chat, CallStartedText(t.arg), "text", 0)
  /\ pending' = Resume(t)
  /\ notifyPending' = IF t.user = NoUser.id THEN notifyPending
                      ELSE EffectDue(notificationPermission)
  /\ ev' = Ev("mediaAcquired", t.chat, t.user, t.arg, CompletionNote(t))
  /\ UNCHANGED <<userVars, activeChat, isLoadingAI, notificationPermission,
                 lastNotifiedMessageId, hidden, notifyCount>>

\* initiateCall after the acquisition rejected: the catch branch.
MediaFailed(t) ==
  /\ ~notifyPending
  /\ t.kind = "media"
  /\ Room(t.user # NoUser.id)
  /\ SendMessageSync(t.user, t.chat, CallFailedText(t.arg), "text", 0)
  /\ pending' = Resume(t)
  /\ notifyPending' = IF t.user = NoUser.id THEN notifyPending
                      ELSE EffectDue(notificationPermission)
  /\ ev' = Ev("mediaFailed", t.chat, t.user, t.arg, CompletionNote(t))
  /\ UNCHANGED <<userVars, activeChat, callVars, isLoadingAI, notificationPermission,
                 lastNotifiedMessageId, hidden, notifyCount>>

\* Faulty variants: a reset that is left out.
EndCallType_Keep(callType) == callType
EndCallVisible_Keep(visible) == visible

\* The three resets of endCall.
EndCallStream(stream) == NoStream
EndCallType(callType) == NONE
EndCallVisible(visible) == FALSE

\* endCall().  stopLocalMedia() is not awaited: whether the release succeeds
\* (released) has no effect on what follows.
EndCall(released) ==
  /\ ~notifyPending
  /\ Room(currentUser # NoUser /\ activeChat # NoChat)
  /\ localMediaStreamAndTracks' = EndCallStream(localMediaStreamAndTracks)
  /\ activeCallType' = EndCallType(activeCallType)
  /\ isCallViewVisible' = EndCallVisible(isCallViewVisible)
  /\ IF activeChat # NoChat
     THEN SendMessageSync(currentUser.id, activeChat, CallEndedText, "text", 0)
     ELSE UNCHANGED msgVars
  /\ notifyPending' = IF currentUser = NoUser \/ activeChat = NoChat
                      THEN notifyPending ELSE EffectDue(notificationPermission)
  /\ ev' = Ev("endCall", ev.chat, ev.user, ev.arg, EndCallNote)
  /\ UNCHANGED <<userVars, activeChat, isLoadingAI, pending, notificationPermission,
                 lastNotifiedMessageId, hidden, notifyCount>>

\* ------------------------------------------------------------- environment
\* Date.now() advances.
Tick ==
  /\ ClockMayAdvance
  /\ clock' = clock + 1
  /\ UNCHANGED <<userVars, activeChat, messages, msgStore, callVars, isLoadingAI,
                 notificationPermission, lastNotifiedMessageId, hidden, pending,
                 notifyPending, notifyCount, ev>>

\* The tab is hidden or shown (document.hidden).
VisibilityChange ==
  /\ hidden' = ~hidden
  /\ UNCHANGED <<userVars, activeChat, msgVars, callVars, isLoadingAI,
                 notificationPermission, lastNotifiedMessageId, pending,
                 notifyPending, notifyCount, ev>>

\* ---------------------------------------------------------- specifications
\* skews: how far the clock may advance inside one sendMessage.
Messaging(skews) ==
  \/ \E content \in Contents, type \in {"text", "ai_query"}, d \in skews :
       SendMessage(content, type, d)
  \/ \E t \in Tasks : AIResponded(t)
  \/ \E t \in Tasks : AIReturnedNull(t)
  \/ \E t \in Tasks : AIFailed(t)

Location ==
  \/ ShareLocation
  \/ \E t \in Tasks, coords \in Coords : LocationFetched(t, coords)
  \/ \E t \in Tasks, error \in LocationErrors : LocationFailed(t, error)

Calls ==
  \/ \E callType \in {VOICE, VIDEO} : InitiateCall(callType)
  \/ \E t \in Tasks : MediaAcquired(t)
  \/ \E t \in Tasks : MediaFailed(t)
  \/ \E released \in BOOLEAN : EndCall(released)

\* uids: the users that log in; chats: the chats that are opened.
Session(uids, chats) ==
  \/ \E c \in chats \cup {NoChat} : SetActiveChat(c)
  \/ \E uid \in uids \cup {NoUser.id} : SetCurrentUser(uid)

Notifying ==
  \/ NotificationEffect
  \/ \E p \in {"granted", "denied"} : PermissionAnswered(p)
  \/ VisibilityChange

\* The message pipeline with chat and user changes.  The clock may advance inside a
\* sendMessage.
NextMsg == Messaging({0, 1}) \/ Session(UserIds, ChatIds) \/ Tick
SpecMsg == Init /\ [][NextMsg]_vars

\* The message pipeline with location fetches in flight while chats are switched.
NextMsgLoc == Messaging({0}) \/ Location \/ Session({"u1"}, ChatIds)
SpecMsgLoc == Init /\ [][NextMsgLoc]_vars

\* The location flow with chat and user changes.
NextLoc == Location \/ Session(UserIds, {"A"})
SpecLoc == Init /\ [][NextLoc]_vars

\* The call lifecycle with chat and user changes.
NextCall == Calls \/ Session({"u1"}, {"A"})
SpecCall == Init /\ [][NextCall]_vars

\* The three operations that skip without a user or a chat, with logins, logouts
\* and one chat opened and closed; the assistant answers, fetches succeed and
\* acquisitions fail.
NextOps ==
  \/ \E content \in Contents, type \in {"text", "ai_query"} :
       SendMessage(content, type, 0)
  \/ \E t \in Tasks : AIResponded(t)
  \/ ShareLocation
  \/ \E t \in Tasks, coords \in {[latitude |-> 1, longitude |-> 2]} :
       LocationFetched(t, coords)
  \/ \E callType \in {VOICE, VIDEO} : InitiateCall(callType)
  \/ \E t \in Tasks : MediaFailed(t)
  \/ Session({"u1"}, {"A"})
SpecOps == Init /\ [][NextOps]_vars

\* AI queries with chats switched while the answers are awaited.
NextAi == Messaging({0}) \/ Session({"u1"}, ChatIds)
SpecAi == Init /\ [][NextAi]_vars

\* The location flow failing with every kind of value a rejection can carry.
NextNorm ==
  \/ ShareLocation
  \/ \E t \in Tasks, error \in ErrorValues : LocationFailed(t, error)
  \/ Session({"u1"}, {"A"})
SpecNorm == Init /\ [][NextNorm]_vars

\* The notification dispatcher over the message pipeline.
NextNotify == Messaging({0}) \/ Session({"u1"}, ChatIds) \/ Notifying \/ Tick
SpecNotify == Init /\ [][NextNotify]_vars

\* -------------------------------------------------------------- properties
\* The other chats' persisted lists are the same before and after the step.
OtherChatsUnchanged(ch) == \A o \in ChatIds \ {ch} : msgStore'[o] = msgStore[o]

AiPending == {t \in Tasks : t.kind = "ai"}

\* C1: a text sendMessage with a current user and an active chat appends exactly one
\* message, sent by the current user to the active chat with the given content, to
\* the active chat's persisted list and to the observable list, and changes no
\* other message.
C1_TextSendAppendsOne ==
  [][\A content \in Contents, d \in {0, 1} :
       (SendMessage(content, "text", d) /\ currentUser # NoUser /\ activeChat # NoChat)
       => LET m == LastMessage(msgStore'[activeChat])
          IN /\ msgStore'[activeChat] = Append(msgStore[activeChat], m)
             /\ messages' = Append(messages, m)
             /\ m.senderId = currentUser.id
             /\ m.chatId = activeChat
             /\ m.type = "text"
             /\ m.content = content
             /\ OtherChatsUnchanged(activeChat)]_vars

\* C2: an ai_query sendMessage finds the loading flag false and appends the query;
\* the flag is true while the assistant's answer is awaited; the answer is appended
\* after the query to the same chat and the flag is false once it is.
C2_AiQueryRoundTrip ==
  /\ [](AiPending # {} => isLoadingAI)
  /\ [][/\ \A content \in Contents, d \in {0, 1} :
             (SendMessage(content, "ai_query", d) /\ currentUser # NoUser
              /\ activeChat # NoChat)
             => /\ ~isLoadingAI
                /\ isLoadingAI'
                /\ Len(msgStore'[activeChat]) = Len(msgStore[activeChat]) + 1
                /\ LastMessage(msgStore'[activeChat]).type = "ai_query"
        /\ \A t \in Tasks :
             AIResponded(t)
             => /\ Len(msgStore'[t.chat]) = Len(msgStore[t.chat]) + 1
                /\ LastMessage(msgStore'[t.chat]).type = "ai_response"
                /\ \E i \in 1..Len(msgStore[t.chat]) :
                     /\ msgStore[t.chat][i].type = "ai_query"
                     /\ msgStore[t.chat][i].content = t.arg
                /\ ~isLoadingAI']_vars

\* C3: when the assistant's answer fails, no answer is appended and, once that
\* invocation has ended with no other query in flight, the loading flag is false.
C3_AiFailureClearsFlag ==
  [][\A t \in Tasks :
       (AIFailed(t) /\ AiPending = {t} /\ pending[t] = 1)
       => /\ msgStore' = msgStore
          /\ ~isLoadingAI']_vars

\* The persisted list of chat ch, empty when there is no chat.
Persisted(ch) == IF ch = NoChat THEN << >> ELSE msgStore[ch]

C6_NotifyAtMostOnce == \A id \in MsgIds : notifyCount[id] <= 1

\* initiateCall(VIDEO) and the endCall that directly followed it have both
\* completed: endCall ran after the acquisition completed, or the acquisition
\* completed after endCall.
VideoCallEnded ==
  /\ ev.arg = VIDEO
  /\ \/ ev.op = "endCall" /\ ev.note = "completed"
     \/ ev.op \in {"mediaAcquired", "mediaFailed"} /\ ev.note = "ended"

\* C5: once initiateCall(VIDEO) and the endCall invoked right after it have both
\* completed, the call state is NONE, the call view is not visible and the stored
\* media handle is null, also when endCall ran while the acquisition was pending.
C5_InitiateThenEndIsIdle ==
  VideoCallEnded
  => /\ activeCallType = NONE
     /\ ~isCallViewVisible
     /\ localMediaStreamAndTracks = NoStream

\* The step appends to the chat of t one location message carrying c, sent by the
\* user of t, and nothing else.
C7_Appended(t, c) ==
  LET old == msgStore[t.chat]
      m == LastMessage(msgStore'[t.chat])
  IN /\ msgStore'[t.chat] = Append(old, m)
     /\ OtherChatsUnchanged(t.chat)
     /\ m.type = "location"
     /\ m.content = LocationString(c)
     /\ m.senderId = t.user

\* C7: when the location fetch of a shareLocation invoked with a current user and
\* an active chat succeeds with coordinates c, exactly one message, of type
\* location, is appended, and afterwards the current user's last known location is
\* c in the current-user slot and in that user's entry of the user directory.
C7_LocationShared ==
  [][\A t \in Tasks, c \in Coords :
       LocationFetched(t, c)
       => /\ C7_Appended(t, c)
          /\ currentUser'.lastKnownLocation = <<c>>
          /\ users'[currentUser'.id] = <<c>>
          /\ dirStore'[currentUser'.id] = <<c>>]_vars

\* A second share has replaced the location a first share stored.
C7_Witness ==
  /\ ev.op = "locationFetched"
  /\ currentUser.id = ev.user
  /\ currentUser.lastKnownLocation # NoLoc
  /\ Len(msgStore[ev.chat]) = 2
  /\ msgStore[ev.chat][1].type = "location"
  /\ msgStore[ev.chat][1].content # msgStore[ev.chat][2].content

\* C8: when the location fetch of a shareLocation invoked with a current user and
\* an active chat fails, exactly one message is appended, of type text, whose
\* content contains the normalized error text; no location message is appended,
\* the current user's last known location is unchanged in the current-user slot and
\* in the user directory, and shareLocation does not reject.
C8_LocationFailureReported ==
  [][\A t \in Tasks, error \in LocationErrors :
       LocationFailed(t, error)
       => LET old == msgStore[t.chat]
              m == LastMessage(msgStore'[t.chat])
          IN /\ msgStore'[t.chat] = Append(old, m)
             /\ OtherChatsUnchanged(t.chat)
             /\ m.type = "text"
             /\ m.content = "Impossible de partager la position: "
                            \o NormalizeError(error)
             /\ NormalizeError(error) # ""
             /\ currentUser' = currentUser
             /\ users' = users
             /\ dirStore' = dirStore
             /\ ev'.note # "rejected"]_vars

\* A share failed after an earlier share had stored a location.
C8_Witness ==
  /\ ev.op = "locationFailed"
  /\ currentUser.id = ev.user
  /\ currentUser.lastKnownLocation # NoLoc
  /\ LastMessage(msgStore[ev.chat]).type = "text"

\* C9: in every reachable state of initiateCall and endCall interleaved, a call
\* state of VOICE or VIDEO comes with a stored media handle that is not null.
C9_ActiveCallHasStream ==
  activeCallType \in {VOICE, VIDEO} => localMediaStreamAndTracks # NoStream

\* A call is active, a later acquisition has failed and another one is pending.
C9_Witness ==
  /\ activeCallType \in {VOICE, VIDEO}
  /\ ev.op = "mediaFailed"
  /\ Tasks # {}

\* C10: in every reachable state of initiateCall and endCall interleaved, call
\* state NONE comes with the call view not visible, and the call view becomes
\* visible only in the step in which an acquisition succeeded and the call state is
\* set to VOICE or VIDEO.
C10_CallViewFollowsCall ==
  /\ [](activeCallType = NONE => ~isCallViewVisible)
  /\ [][(~isCallViewVisible /\ isCallViewVisible')
        => /\ \E t \in Tasks : MediaAcquired(t)
           /\ activeCallType' \in {VOICE, VIDEO}]_vars

\* endCall has ended a call whose acquisition had completed, another acquisition
\* still pending.
C10_Witness ==
  /\ ev.op = "endCall"
  /\ ev.note = "completed"
  /\ activeCallType = NONE
  /\ ~isCallViewVisible
  /\ Tasks # {}

\* The session state and the requests in flight are the same before and after.
NothingDone ==
  UNCHANGED <<messages, msgStore, currentUser, users, dirStore, activeCallType,
              localMediaStreamAndTracks, isCallViewVisible, isLoadingAI, pending>>

\* C11: sendMessage and shareLocation called without a current user or without an
\* active chat, and initiateCall called without an active chat, change no session
\* state and start no persistence append, AI request, location fetch or media
\* acquisition.
C11_InputSkip ==
  [][/\ \A content \in Contents, type \in {"text", "ai_query"}, d \in {0, 1} :
          (SendMessage(content, type, d)
           /\ (currentUser = NoUser \/ activeChat = NoChat)) => NothingDone
     /\ (ShareLocation /\ (currentUser = NoUser \/ activeChat = NoChat))
        => NothingDone
     /\ \A callType \in {VOICE, VIDEO} :
          (InitiateCall(callType) /\ activeChat = NoChat) => NothingDone]_vars

\* A skipped operation while an earlier request is still in flight and a message
\* is stored.
C11_Witness ==
  /\ ev.op \in {"sendMessageSkip", "shareLocationSkip", "initiateCallSkip"}
  /\ Tasks # {}
  /\ TotalMsgs > 0

\* The query of the pending request t is in the persisted list of its chat.
QueryStored(t) ==
  \E i \in 1..Len(msgStore[t.chat]) :
    /\ msgStore[t.chat][i].type = "ai_query"
    /\ msgStore[t.chat][i].content = t.arg
    /\ msgStore[t.chat][i].senderId = t.user

\* C12: for every ai_query sendMessage, overlapping ones included, the query is
\* appended before the request is made, hence before its answer, and the loading
\* flag is true in every state in which the request is not yet resolved.
C12_FlagWhilePending ==
  \A t \in AiPending : QueryStored(t) /\ isLoadingAI

\* C13: when the acquisition of an initiateCall(kind) called with an active chat
\* and a current user fails, the call state, the stored handle and the call view
\* flag are unchanged, exactly one text message naming the call type that failed
\* is appended, and initiateCall does not reject.
C13_CallFailureReported ==
  [][\A t \in Tasks :
       (MediaFailed(t) /\ t.user # NoUser.id)
       => LET m == LastMessage(msgStore'[t.chat])
          IN /\ UNCHANGED <<activeCallType, localMediaStreamAndTracks,
                            isCallViewVisible>>
             /\ msgStore'[t.chat] = Append(msgStore[t.chat], m)
             /\ OtherChatsUnchanged(t.chat)
             /\ m.type = "text"
             /\ m.content = IF t.arg = VIDEO
                            THEN "Impossible de demarrer l'appel video."
                            ELSE "Impossible de demarrer l'appel vocal."
             /\ ev'.note # "rejected"]_vars

\* An acquisition has failed while a call started earlier is active.
C13_Witness ==
  /\ ev.op = "mediaFailed"
  /\ ev.user # NoUser.id
  /\ activeCallType # NONE
  /\ LastMessage(msgStore[ev.chat]).type = "text"
  /\ Len(msgStore[ev.chat]) = 2

\* The step raises a system notification: in a run of the notification rule of its
\* own, or in the run that belongs to the commit of a chat change.
NotificationRaised ==
  \/ NotificationEffect /\ ev'.note = "shown"
  \/ \E c \in ChatIds \cup {NoChat} : SetActiveChat(c) /\ notifyCount' # ZeroCount

\* C14: a notification is raised only with permission granted, an active chat, a
\* current user, a message list that is not empty and whose last message was not
\* sent by the current user, and the tab hidden; and when one is raised the dedupe
\* token becomes the id of the last message of the list.
C14_NotifyOnlyWhenDue ==
  [][NotificationRaised
     => /\ notificationPermission = "granted"
        /\ activeChat' # NoChat
        /\ currentUser # NoUser
        /\ messages # << >>
        /\ LastMessage(messages).senderId # currentUser.id
        /\ hidden
        /\ lastNotifiedMessageId' = LastMessage(messages).id]_vars

\* C15: the call state never changes from VOICE to VIDEO or from VIDEO to VOICE in
\* one step: every change of the type of an active call passes through NONE.
C15_CallTypeThroughNone ==
  [][/\ ~(activeCallType = VOICE /\ activeCallType' = VIDEO)
     /\ ~(activeCallType = VIDEO /\ activeCallType' = VOICE)]_vars

\* String(value) of a failure value that is not an object: "null" for null, the
\* digits of a number.
Coerced(error) == IF error.shape = "null" THEN "null" ELSE error.message

NoDetailsTexts ==
  {"Details de l'erreur non disponibles.",
   "Details de l'erreur non disponibles (conversion en chaine impossible)."}

\* The text the stated rules give for a failure value, in their order.
StatedText(error, text) ==
  IF error.shape = "coded"
  THEN CASE error.code = 1 ->
              text = "Permission de geolocalisation refusee par l'utilisateur."
         [] error.code = 2 -> text = "Information de position non disponible."
         [] error.code = 3 -> text = "La demande de position a expire."
         [] OTHER ->
              text = "Erreur de geolocalisation: "
                     \o (IF error.message = "" THEN "Inconnue" ELSE error.message)
                     \o " (code " \o ToString(error.code) \o ")."
  ELSE IF error.shape \in {"Error", "string"} THEN text = error.message
  ELSE IF error.shape = "objectThrows" \/ error.message = "[object Object]"
  THEN text \in NoDetailsTexts
  ELSE text = Coerced(error)

\* C16: for every failure value the text a failed shareLocation reports follows
\* the rules in their order (coded geolocation error, generic error, string, any
\* other value coerced to a string with the no-details text as fallback) and is
\* never empty.
C16_NormalizerRules ==
  [][\A t \in Tasks, error \in ErrorValues :
       LocationFailed(t, error)
       => \E text \in {NormalizeError(e) : e \in ErrorValues} \cup {"null", "42"} :
            /\ LastMessage(msgStore'[t.chat]).content
                 = "Impossible de partager la position: " \o text
            /\ StatedText(error, text)
            /\ text # ""]_vars

\* C17, as the code has it: the answer to an ai_query is appended to the persisted
\* list of the chat the query was sent in, whatever chat is active when it arrives,
\* and the observable list becomes that chat's list.
C17_AnswerGoesToQueryChat ==
  [][\A t \in Tasks :
       AIResponded(t)
       => LET r == LastMessage(msgStore'[t.chat])
          IN /\ QueryStored(t)
             /\ msgStore'[t.chat] = Append(msgStore[t.chat], r)
             /\ r.type = "ai_response"
             /\ OtherChatsUnchanged(t.chat)
             /\ messages' = msgStore'[t.chat]]_vars

\* The answer to a query sent in one chat has arrived with the other chat active.
C17_Witness ==
  /\ ev.op = "aiResponded"
  /\ activeChat \in ChatIds \ {ev.chat}
  /\ LastMessage(msgStore[ev.chat]).type = "ai_response"
  /\ msgStore[activeChat] = << >>

\* C17: when the active chat was switched from A to B while an ai_query sent in A
\* is pending, the answer is appended to B, the chat active when it arrives, not to
\* A.
C17_AnswerGoesToActiveChat ==
  [][\A t \in Tasks :
       (AIResponded(t) /\ activeChat \in ChatIds \ {t.chat})
       => /\ Len(msgStore'[activeChat]) = Len(msgStore[activeChat]) + 1
          /\ LastMessage(msgStore'[activeChat]).type = "ai_response"
          /\ msgStore'[t.chat] = msgStore[t.chat]]_vars

\* C18: in every state in which no reactive rule is left to fire, the observable
\* message list is the persisted list of the active chat, and is empty when there
\* is no active chat.
C18_ListIsActiveChats ==
  ~notifyPending => messages = Persisted(activeChat)

\* C19: a location fetch that resolves after the current user was changed leaves
\* the identity of the current user as the latest setCurrentUser set it (null
\* stays null); it changes at most the last known location of that user.
C19_ShareKeepsCurrentUser ==
  [][\A t \in Tasks, c \in Coords :
       LocationFetched(t, c)
       => /\ currentUser'.id = currentUser.id
          /\ currentUser.id # t.user => currentUser' = currentUser]_vars

\* The messages of chat c that sendMessage created.
SentIn(c) == {i \in 1..Len(msgStore[c]) : msgStore[c][i].type # "ai_response"}

\* C20: the ids of the messages sendMessage created are pairwise distinct within a
\* chat's persisted list, and the id of each is its timestamp.
C20_IdsDistinct ==
  \A c \in ChatIds :
    /\ \A i, j \in SentIn(c) : i # j => msgStore[c][i].id # msgStore[c][j].id
    /\ \A i \in SentIn(c) : msgStore[c][i].id = ToString(msgStore[c][i].timestamp)

====
